---- MODULE Spec2Model ----
(***************************************************************************)
(* Model of BGLLogSimulator (src/bgl_log_simulator.py): the node status    *)
(* table, the active-anomaly registry, the simulation clock and the        *)
(* per-tick policy of generate_logs, with the anomaly onset                *)
(* (_create_anomaly) and continuation/resolution (_continue_anomaly)       *)
(* operations.                                                             *)
(*                                                                         *)
(* A log record is the tuple handed to _format_log_entry: timestamp,       *)
(* node id, component, severity.  The message text is represented by the   *)
(* placeholders of its template, which is all that can raise or touch the  *)
(* clock.  Time is counted in microseconds from construction; a timestamp  *)
(* is the clock truncated to milliseconds, as strftime(...)[:-3] does.     *)
(* random.random() is counted in tenths, the draw of random.choices in     *)
(* thousandths, and the severity weights in 1/10000.                       *)
(***************************************************************************)
EXTENDS Integers, Sequences, FiniteSets, TLC

VARIABLES
    num_nodes,            \* self.num_nodes
    error_rate,           \* self.error_rate, in tenths
    anomaly_probability,  \* self.anomaly_probability, in tenths
    node_status,          \* self.node_status: node id -> status
    active_anomalies,     \* self.active_anomalies: kind -> sequence of node ids
    current_time,         \* self.current_time, microseconds since construction
    pc,                   \* where the caller of the simulator is
    count,                \* generate_logs' argument
    ticks,                \* iterations of generate_logs' loop done in this call
    logs,                 \* generate_logs' local list, its return value; after a
                          \* direct engine call, the messages the call returned
    ops,                  \* engine operations performed so far
    last,                 \* what the last engine operation did and returned
    file,                 \* the file generate_log_file writes: one entry per write
    result                \* generate_log_file's return value

vars == <<num_nodes, error_rate, anomaly_probability, node_status,
          active_anomalies, current_time, pc, count, ticks, logs, ops, last,
          file, result>>

\* what generate_log_file leaves behind
written == <<file, result>>

config == <<num_nodes, error_rate, anomaly_probability>>

(***************************************************************************)
(* Bounds of the model                                                     *)
(***************************************************************************)
\* engine operations (ticks and direct engine calls) in one behaviour
MaxOps == 3

(***************************************************************************)
(* Program constants                                                       *)
(***************************************************************************)
PartitionSpan == 100      \* random.randint(0, self.num_nodes - 100)
PartitionMin == 10        \* random.randint(10, 100)
PartitionMax == 100
RackSize == 32            \* rack_id * 32, self.num_nodes // 32
CorruptionMin == 5        \* random.randint(5, 20)
CorruptionMax == 20
CascadeMin == 3           \* random.randint(3, 10)
CascadeMax == 10
OverheatSpan == 32        \* random.randint(0, self.num_nodes - 32)
OverheatMin == 5          \* random.randint(5, 32)
OverheatMax == 32
TempMin == 75             \* random.randint(75, 95)
TempMax == 95
TempFatal == 90           \* temp > 90
TempError == 85           \* temp > 85
NodeRangeSpan == 10       \* random.randint(0, self.num_nodes - 10)
ResolveThreshold == 1     \* random.random() < 0.1
ContinueThreshold == 3    \* random.random() < 0.3
MaxIntervalSeconds == 5   \* random.random() * 5

Kinds == {"network_partition", "rack_power_failure", "filesystem_corruption",
          "memory_errors", "overheating"}

Statuses == {"OPERATIONAL", "NETWORK_DEGRADED", "POWERED_OFF",
             "FILESYSTEM_ERROR", "MEMORY_ERROR", "OVERHEATING"}

\* the status each kind's onset assigns
KindStatus(kind) ==
    CASE kind = "network_partition" -> "NETWORK_DEGRADED"
      [] kind = "rack_power_failure" -> "POWERED_OFF"
      [] kind = "filesystem_corruption" -> "FILESYSTEM_ERROR"
      [] kind = "memory_errors" -> "MEMORY_ERROR"
      [] kind = "overheating" -> "OVERHEATING"

\* the component each kind's records carry
KindComponent(kind) ==
    CASE kind = "network_partition" -> "NETWORK"
      [] kind = "rack_power_failure" -> "POWER"
      [] kind = "filesystem_corruption" -> "FILESYSTEM"
      [] kind = "memory_errors" -> "MEMORY"
      [] kind = "overheating" -> "TEMPERATURE"

severities == <<"INFO", "WARNING", "ERROR", "FATAL">>

components == <<"KERNEL", "MEMORY", "NETWORK", "IO", "PROCESSOR",
                "FILESYSTEM", "SCHEDULER", "POWER", "TEMPERATURE", "APPLICATION">>

Range(s) == {s[i] : i \in DOMAIN s}

(***************************************************************************)
(* Random draws.  Each random call of the source is a choice from a small  *)
(* set of values of its range; a call whose range is empty raises.         *)
(***************************************************************************)
\* random.randint(lo, hi): empty when lo > hi (the call raises ValueError)
RandInt(lo, hi) == IF lo > hi THEN {} ELSE lo..hi

\* the values of random.randint(lo, hi) an operation is explored with: "lo"
\* the least, "mid" the middle one, "hi" the greatest
Pick(lo, hi, which) ==
    CASE which = "lo" -> lo
      [] which = "mid" -> (lo + hi) \div 2
      [] which = "hi" -> hi

\* the draws of one operation are taken together: all its random.randint
\* calls at their least value with zero intervals, or all at their greatest
\* with the intervals of seed 1
Corners == {[which |-> "lo", seed |-> 0], [which |-> "hi", seed |-> 1]}

\* random.random(), in tenths: below 0.1, below 0.3, and above every threshold
RandomDraws == {0, 2, 9}

\* random.random() * 5 as a timedelta, in microseconds
IntervalDraws == <<0, 999, 1000, MaxIntervalSeconds * 1000000>>

\* the intervals of one operation: the i-th _generate_timestamp call of an
\* operation with seed s adds Interval(s, i); seed 0 adds nothing
IntervalSeeds == {0, 1}

Interval(s, i) == IF s = 0 THEN 0 ELSE IntervalDraws[((s + i) % 4) + 1]

\* Interval(s, 1) + ... + Interval(s, k); the intervals repeat every four calls
IntervalSum(s, k) ==
    LET period == Interval(s, 1) + Interval(s, 2) + Interval(s, 3) + Interval(s, 4)
        m == k % 4
    IN  (k \div 4) * period
          + (IF m >= 1 THEN Interval(s, 1) ELSE 0)
          + (IF m >= 2 THEN Interval(s, 2) ELSE 0)
          + (IF m >= 3 THEN Interval(s, 3) ELSE 0)

(***************************************************************************)
(* _generate_timestamp and _format_log_entry                               *)
(***************************************************************************)
\* faulty variant of TimeAfter: the interval is subtracted from the clock
TimeAfter_Backwards(t, s, k) == t - IntervalSum(s, k)

\* the clock after the k-th _generate_timestamp call of an operation that
\* started at clock t
TimeAfter(t, s, k) == t + IntervalSum(s, k)

\* strftime("%Y-%m-%d-%H.%M.%S.%f")[:-3]: microseconds truncated to milliseconds
Stamp(t) == t \div 1000

generate_timestamp(t, s, k) == Stamp(TimeAfter(t, s, k))

format_log_entry(timestamp, node_id, component, severity) ==
    [timestamp |-> timestamp, node_id |-> node_id,
     component |-> component, severity |-> severity]

(***************************************************************************)
(* _init_message_templates: each template is the set of its placeholders   *)
(***************************************************************************)
message_templates(component) ==
    CASE component = "KERNEL" ->
           <<{"node_id", "pid"}, {"address"}, {"syscall", "errno"}, {"module"},
             {"pid", "priority"}, {"node_id"}, {"node_id"}, {"node_id"}>>
      [] component = "MEMORY" ->
           <<{"percent", "node_id"}, {"pid"}, {"pid"}, {"address"}, {"status"},
             {"node_id"}, {}, {"percent", "node_id"}>>
      [] component = "NETWORK" ->
           <<{"interface", "node_id"}, {"node_id", "target_node"}, {"bandwidth"},
             {"port"}, {"interface"}, {"node_id", "bandwidth"},
             {"node_id", "target_node"}, {"node_id"}>>
      [] component = "IO" ->
           <<{"device", "sector"}, {"disk", "node_id"}, {"device"}, {"filename"},
             {"wait_time"}, {"node_id"}, {"scheduler", "node_id"},
             {"device", "speed"}>>
      [] component = "PROCESSOR" ->
           <<{"temp", "node_id"}, {"percent", "node_id"}, {"core"}, {"core"},
             {"cycles"}, {"percent", "node_id"}, {"freq"}, {"core", "node_id"}>>
      [] component = "FILESYSTEM" ->
           <<{"fs", "node_id"}, {"path"}, {"fs"}, {"fs"}, {"fs"}, {"fs"},
             {"percent", "fs"}, {"fs"}>>
      [] component = "SCHEDULER" ->
           <<{"job_id", "node_range"}, {"job_id", "exit_code"}, {}, {"job_id"},
             {"job_id", "duration"}, {"waiting", "running"}, {"count"},
             {"cpu_free", "mem_free"}>>
      [] component = "POWER" ->
           <<{"psu", "rack_id"}, {"node_id"}, {"watts"}, {"rail"}, {},
             {"rack_id"}, {"node_id"}, {}>>
      [] component = "TEMPERATURE" ->
           <<{"temp", "rack_id"}, {"fan_id", "node_id"}, {"temp"}, {"node_id"},
             {"error_code"}, {"temp", "rack_id"}, {"node_id"}, {}>>
      [] component = "APPLICATION" ->
           <<{"app_name", "signal"}, {"job_id"}, {"job_id", "timestamp"},
             {"app_name", "mem_amount"}, {"job_id"}, {"app_name", "node_id"},
             {"job_id"}, {"app_name"}>>

(***************************************************************************)
(* _fill_template_placeholders: the message text is not kept; what is kept *)
(* is whether a placeholder's random.randint has an empty range (it        *)
(* raises ValueError) and how many _generate_timestamp calls were made.    *)
(* Every other placeholder draws from a fixed non-empty range.             *)
(***************************************************************************)
fill_template_placeholders(placeholders, N) ==
    [raised |-> \/ ("target_node" \in placeholders /\ RandInt(0, N - 1) = {})
                \/ ("node_range" \in placeholders
                      /\ RandInt(0, N - NodeRangeSpan) = {}),
     stamps |-> IF "timestamp" \in placeholders THEN 1 ELSE 0]

(***************************************************************************)
(* _get_severity                                                           *)
(***************************************************************************)
\* self.severity_levels, in 1/10000: INFO, WARNING, ERROR, FATAL
severity_levels == <<7000, 1500, 1000, 500>>

\* the weights of a node that is not OPERATIONAL
degraded_weights == <<2000, 3000, 4000, 1000>>

\* w[i] *= num/10
Scaled(w, idx, num) == [i \in 1..4 |-> IF i \in idx THEN (w[i] * num) \div 10 ELSE w[i]]

\* faulty variant of severity_weights: the component rules inside the else
\* branch, so that a node that is not OPERATIONAL keeps the degraded weights
severity_weights_ElseOnly(component, status, rate, r) ==
    LET w0 == IF r < rate THEN Scaled(Scaled(Scaled(severity_levels, {2}, 12), {3}, 12), {4}, 12)
              ELSE Scaled(severity_levels, {1}, 12)
        w1 == IF component \in {"MEMORY", "PROCESSOR", "POWER"}
              THEN Scaled(Scaled(w0, {3}, 12), {4}, 11) ELSE w0
    IN  IF status # "OPERATIONAL" THEN degraded_weights
        ELSE IF component \in {"SCHEDULER", "FILESYSTEM", "NETWORK"}
        THEN Scaled(w1, {1}, 12) ELSE w1

\* severity_weights before normalisation; r is the random.random() draw
\* compared with error_rate
severity_weights(component, status, rate, r) ==
    LET w0 == IF status # "OPERATIONAL" THEN degraded_weights
              ELSE IF r < rate THEN Scaled(Scaled(Scaled(severity_levels, {2}, 12), {3}, 12), {4}, 12)
              ELSE Scaled(severity_levels, {1}, 12)
        w1 == IF component \in {"MEMORY", "PROCESSOR", "POWER"}
              THEN Scaled(Scaled(w0, {3}, 12), {4}, 11) ELSE w0
    IN  IF component \in {"SCHEDULER", "FILESYSTEM", "NETWORK"}
        THEN Scaled(w1, {1}, 12) ELSE w1

\* random.choices(severities, weights)[0] for the draw u, in thousandths:
\* the first level whose cumulative weight exceeds u * total
Choices(w, u) ==
    LET total == w[1] + w[2] + w[3] + w[4]
        x == u * total
    IN  IF 1000 * w[1] > x THEN 1
        ELSE IF 1000 * (w[1] + w[2]) > x THEN 2
        ELSE IF 1000 * (w[1] + w[2] + w[3]) > x THEN 3
        ELSE 4

get_severity(component, status, rate, r, u) ==
    severities[Choices(severity_weights(component, status, rate, r), u)]

(***************************************************************************)
(* The node status table and the registry                                  *)
(***************************************************************************)
\* self.node_status[node_id] = status for every node of the sequence; a
\* Python dict takes a new key on assignment
SetStatus(ns, nodes, status) ==
    LET assigned == Range(nodes)
    IN  [n \in (DOMAIN ns) \cup assigned |->
            IF n \in assigned THEN status ELSE ns[n]]

\* self.active_anomalies[kind] of the defaultdict(list), read
Entry(aa, kind) == IF kind \in DOMAIN aa THEN aa[kind] ELSE <<>>

\* self.active_anomalies[kind].extend(nodes)
Extend(aa, kind, nodes) ==
    [x \in (DOMAIN aa) \cup {kind} |->
        IF x = kind THEN Entry(aa, kind) \o nodes ELSE aa[x]]

\* faulty variant of Clear: del self.active_anomalies[kind]
Clear_Removes(aa, kind) == [x \in (DOMAIN aa) \ {kind} |-> aa[x]]

\* self.active_anomalies[kind] = []
Clear(aa, kind) ==
    [x \in (DOMAIN aa) \cup {kind} |-> IF x = kind THEN <<>> ELSE aa[x]]

\* any(self.active_anomalies.values())
AnyActive(aa) == \E k \in DOMAIN aa : aa[k] # <<>>

\* {k: v for k, v in self.active_anomalies.items() if v}
ActiveKinds(aa) == {k \in DOMAIN aa : aa[k] # <<>>}

\* one record per node of the sequence, in order; the j-th one is stamped by
\* the (k0 + j)-th _generate_timestamp call of the operation
PerNode(nodes, component, sevs, t, s, k0) ==
    [j \in 1..Len(nodes) |->
        format_log_entry(generate_timestamp(t, s, k0 + j), nodes[j], component, sevs[j])]

\* faulty variant of NodeRange: range(start + 1, start + n + 1)
NodeRange_OffByOne(start, n) == [j \in 1..n |-> start + j]

\* list(range(start, start + n))
NodeRange(start, n) == [j \in 1..n |-> start + j - 1]

(***************************************************************************)
(* _create_anomaly.  An outcome is what one call does: whether it raised,  *)
(* the kind drawn, the state it leaves and the (messages, affected_nodes)  *)
(* it returns.  A call that raises does so at its first random call,       *)
(* before any assignment.                                                  *)
(***************************************************************************)
Raised(kind, ns, aa, t) ==
    [raised |-> TRUE, kind |-> kind, node_status |-> ns, active_anomalies |-> aa,
     current_time |-> t, messages |-> <<>>, affected_nodes |-> <<>>]

\* faulty variant of Onset: the affected nodes are not registered
Onset_Unregistered(kind, ns, aa, t, nodes, msgs) ==
    [raised |-> FALSE, kind |-> kind,
     node_status |-> SetStatus(ns, nodes, KindStatus(kind)),
     active_anomalies |-> aa,
     current_time |-> t, messages |-> msgs, affected_nodes |-> nodes]

\* the outcome of an onset: lines 408-422 and their like for each kind
Onset(kind, ns, aa, t, nodes, msgs) ==
    [raised |-> FALSE, kind |-> kind,
     node_status |-> SetStatus(ns, nodes, KindStatus(kind)),
     active_anomalies |-> Extend(aa, kind, nodes),
     current_time |-> t, messages |-> msgs, affected_nodes |-> nodes]

\* lines 408-422: affected_count nodes from start_node lose the network
PartitionOnset(start_node, affected_count, ns, aa, t, s) ==
    LET affected_nodes == NodeRange(start_node, affected_count)
    IN  Onset("network_partition", ns, aa,
              TimeAfter(t, s, affected_count), affected_nodes,
              PerNode(affected_nodes, "NETWORK",
                      [j \in 1..affected_count |-> "ERROR"], t, s, 0))

\* faulty variant of NetworkPartition: random.randint(10, 101)
NetworkPartition_OneMore(N, ns, aa, t) ==
    IF RandInt(0, N - PartitionSpan) = {}
    THEN {Raised("network_partition", ns, aa, t)}
    ELSE { PartitionOnset(Pick(0, N - PartitionSpan, d.which),
                          Pick(PartitionMin, PartitionMax + 1, d.which), ns, aa, t, d.seed) :
             d \in Corners }

\* anomaly_type == "network_partition"
NetworkPartition(N, ns, aa, t) ==
    IF RandInt(0, N - PartitionSpan) = {}
    THEN {Raised("network_partition", ns, aa, t)}
    ELSE { PartitionOnset(Pick(0, N - PartitionSpan, d.which),
                          Pick(PartitionMin, PartitionMax, d.which), ns, aa, t, d.seed) :
             d \in Corners }

\* lines 427-451: the rack of rack_id goes down: the master event, then one
\* event per node
RackOnset(rack_id, ns, aa, t, s) ==
    LET affected_nodes == NodeRange(rack_id * RackSize, RackSize)
        master == format_log_entry(generate_timestamp(t, s, 1),
                                   affected_nodes[1], "POWER", "FATAL")
    IN  Onset("rack_power_failure", ns, aa,
              TimeAfter(t, s, RackSize + 1), affected_nodes,
              <<master>> \o PerNode(affected_nodes, "POWER",
                                    [j \in 1..RackSize |-> "ERROR"], t, s, 1))

\* faulty variant of RackPowerFailure: random.randint(0, self.num_nodes // 32)
RackPowerFailure_OneMore(N, ns, aa, t) ==
    IF RandInt(0, N \div RackSize) = {}
    THEN {Raised("rack_power_failure", ns, aa, t)}
    ELSE { RackOnset(Pick(0, N \div RackSize, d.which), ns, aa, t, d.seed) :
             d \in Corners }

\* anomaly_type == "rack_power_failure"
RackPowerFailure(N, ns, aa, t) ==
    IF RandInt(0, (N \div RackSize) - 1) = {}
    THEN {Raised("rack_power_failure", ns, aa, t)}
    ELSE { RackOnset(Pick(0, (N \div RackSize) - 1, d.which), ns, aa, t, d.seed) :
             d \in Corners }

\* faulty variant of Sample: random.sample(range(1, N + 1), k)
Sample_OneBased(N, k, which) ==
    IF which = "lo" THEN [j \in 1..k |-> (j - 1) * (N \div k) + 1]
    ELSE [j \in 1..k |-> N - j + 1]

\* faulty variant of Sample: k draws with replacement, as random.choices
Sample_WithReplacement(N, k, which) ==
    IF which = "lo" THEN [j \in 1..k |-> ((j - 1) \div 2) * (N \div k)]
    ELSE [j \in 1..k |-> N - 1 - ((j - 1) \div 2)]

\* random.sample(range(N), k): k distinct ids in some order; spread over the
\* table from node 0, or descending from the last node
Sample(N, k, which) ==
    IF which = "lo" THEN [j \in 1..k |-> (j - 1) * (N \div k)]
    ELSE [j \in 1..k |-> N - j]

\* anomaly_type == "filesystem_corruption"; random.sample raises when the
\* sample is larger than the population
FilesystemCorruption(N, ns, aa, t) ==
    { LET affected_count == Pick(CorruptionMin, CorruptionMax, d.which)
          affected_nodes == Sample(N, affected_count, d.which)
      IN  IF affected_count > N
          THEN Raised("filesystem_corruption", ns, aa, t)
          ELSE Onset("filesystem_corruption", ns, aa,
                     TimeAfter(t, d.seed, affected_count), affected_nodes,
                     PerNode(affected_nodes, "FILESYSTEM",
                             [j \in 1..affected_count |-> "ERROR"], t, d.seed, 0)) :
        d \in Corners }

\* faulty variant of CascadeSeverity: i <= 2 for i < 2
CascadeSeverity_ThreeWarnings(i, error_count) ==
    IF i <= 2 THEN "WARNING"
    ELSE IF i < error_count - 1 THEN "ERROR"
    ELSE "FATAL"

\* the severity of the i-th event (from 0) of a cascade of error_count events
CascadeSeverity(i, error_count) ==
    IF i < 2 THEN "WARNING"
    ELSE IF i < error_count - 1 THEN "ERROR"
    ELSE "FATAL"

\* anomaly_type == "memory_errors"
MemoryErrors(N, ns, aa, t) ==
    IF RandInt(0, N - 1) = {}
    THEN {Raised("memory_errors", ns, aa, t)}
    ELSE { LET node_id == Pick(0, N - 1, d.which)
               error_count == Pick(CascadeMin, CascadeMax, d.which)
           IN  Onset("memory_errors", ns, aa,
                     TimeAfter(t, d.seed, error_count), <<node_id>>,
                     PerNode([j \in 1..error_count |-> node_id], "MEMORY",
                             [j \in 1..error_count |->
                                 CascadeSeverity(j - 1, error_count)],
                             t, d.seed, 0)) :
             d \in Corners \cup {[which |-> "mid", seed |-> 1]} }

\* the temperatures of one onset: random.randint(75, 95) for the j-th node
\* goes through the range in steps of 5 from 75 + p
Temp(p, j) == TempMin + ((p + 5 * j) % (TempMax - TempMin + 1))

\* faulty variant of TempSeverity: >= for >
TempSeverity_AtLeast(temp) ==
    IF temp >= TempFatal THEN "FATAL"
    ELSE IF temp >= TempError THEN "ERROR"
    ELSE "WARNING"

\* lines 517-525: the severity of a temperature
TempSeverity(temp) ==
    IF temp > TempFatal THEN "FATAL"
    ELSE IF temp > TempError THEN "ERROR"
    ELSE "WARNING"

\* faulty variant of Overheating: random.randint(0, self.num_nodes - 31)
Overheating_LateStart(N, ns, aa, t) ==
    IF RandInt(0, N - OverheatSpan) = {}
    THEN {Raised("overheating", ns, aa, t)}
    ELSE { LET start_node == Pick(0, N - OverheatSpan + 1, d.which)
               affected_count == Pick(OverheatMin, OverheatMax, d.which)
               affected_nodes == NodeRange(start_node, affected_count)
           IN  Onset("overheating", ns, aa,
                     TimeAfter(t, d.seed, affected_count), affected_nodes,
                     PerNode(affected_nodes, "TEMPERATURE",
                             [j \in 1..affected_count |->
                                 TempSeverity(Temp(d.seed, j))],
                             t, d.seed, 0)) :
             d \in Corners }

\* anomaly_type == "overheating"
Overheating(N, ns, aa, t) ==
    IF RandInt(0, N - OverheatSpan) = {}
    THEN {Raised("overheating", ns, aa, t)}
    ELSE { LET start_node == Pick(0, N - OverheatSpan, d.which)
               affected_count == Pick(OverheatMin, OverheatMax, d.which)
               affected_nodes == NodeRange(start_node, affected_count)
           IN  Onset("overheating", ns, aa,
                     TimeAfter(t, d.seed, affected_count), affected_nodes,
                     PerNode(affected_nodes, "TEMPERATURE",
                             [j \in 1..affected_count |->
                                 TempSeverity(Temp(d.seed, j))],
                             t, d.seed, 0)) :
             d \in Corners }

\* random.choice of the five kinds, then the branch of the kind drawn
create_anomaly(N, ns, aa, t) ==
    NetworkPartition(N, ns, aa, t) \cup RackPowerFailure(N, ns, aa, t)
      \cup FilesystemCorruption(N, ns, aa, t) \cup MemoryErrors(N, ns, aa, t)
      \cup Overheating(N, ns, aa, t)

(***************************************************************************)
(* _continue_anomaly.  An outcome is the branch taken ("noop" for the two  *)
(* early returns, "resolve", "continue"), the kind drawn, the state the    *)
(* call leaves and the messages it returns.                                *)
(***************************************************************************)
Continued(branch, kind, ns, aa, t, msgs) ==
    [raised |-> FALSE, branch |-> branch, kind |-> kind, node_status |-> ns,
     active_anomalies |-> aa, current_time |-> t, messages |-> msgs]

\* faulty variant of RestoredNodes: every kind resets affected_nodes[0] only
RestoredNodes_FirstOnly(kind, affected_nodes) == <<affected_nodes[1]>>

\* the nodes whose status the resolution of a kind resets, in order:
\* memory_errors resets affected_nodes[0] only
RestoredNodes(kind, affected_nodes) ==
    IF kind = "memory_errors" THEN <<affected_nodes[1]>> ELSE affected_nodes

\* faulty variant of ResolveMessages: without the rack's master record
ResolveMessages_NoMaster(kind, affected_nodes, t, s) ==
    LET restored == RestoredNodes(kind, affected_nodes)
    IN  PerNode(restored, KindComponent(kind),
                [j \in 1..Len(restored) |-> "INFO"], t, s, 0)

\* the messages of a resolution: one INFO record per restored node, after a
\* master record on the first node for rack_power_failure
ResolveMessages(kind, affected_nodes, t, s) ==
    LET restored == RestoredNodes(kind, affected_nodes)
        info == [j \in 1..Len(restored) |-> "INFO"]
    IN  IF kind = "rack_power_failure"
        THEN <<format_log_entry(generate_timestamp(t, s, 1), affected_nodes[1],
                                "POWER", "INFO")>>
               \o PerNode(restored, "POWER", info, t, s, 1)
        ELSE PerNode(restored, KindComponent(kind), info, t, s, 0)

\* faulty variant of Resolve: the statuses are not reset
Resolve_KeepsStatus(kind, ns, aa, t, s) ==
    LET msgs == ResolveMessages(kind, aa[kind], t, s)
    IN  Continued("resolve", kind, ns, Clear(aa, kind), TimeAfter(t, s, Len(msgs)), msgs)

\* if random.random() < 0.1: the branch of the kind drawn
Resolve(kind, ns, aa, t, s) ==
    LET affected_nodes == aa[kind]
        msgs == ResolveMessages(kind, affected_nodes, t, s)
    IN  Continued("resolve", kind,
                  SetStatus(ns, RestoredNodes(kind, affected_nodes), "OPERATIONAL"),
                  Clear(aa, kind), TimeAfter(t, s, Len(msgs)), msgs)

\* faulty variant of Choice: the index drawn is taken for the node
Choice_Index(nodes, which) == IF which = "lo" THEN 0 ELSE Len(nodes) - 1

\* random.choice(self.active_anomalies[anomaly_type]): the first or the last
Choice(nodes, which) == IF which = "lo" THEN nodes[1] ELSE nodes[Len(nodes)]

\* faulty variant of StillOngoing: the record is built but not appended
StillOngoing_Silent(kind, ns, aa, t, node_id, s) ==
    Continued("continue", kind, ns, aa, TimeAfter(t, s, 1), <<>>)

\* else: one ERROR record on a node of the kind's entry; none of the
\* placeholders of the three templates raises or stamps
StillOngoing(kind, ns, aa, t, node_id, s) ==
    Continued("continue", kind, ns, aa, TimeAfter(t, s, 1),
              <<format_log_entry(generate_timestamp(t, s, 1), node_id,
                                 KindComponent(kind), "ERROR")>>)

\* faulty variant of ContinueActive: random.random() < 0.1 never holds
ContinueActive_NeverResolves(ns, aa, t) ==
    UNION { {StillOngoing(anomaly_type, ns, aa, t,
                          Choice(aa[anomaly_type], d.which), d.seed) : d \in Corners} :
            anomaly_type \in ActiveKinds(aa) }

\* lines 550-705: a kind drawn among the active ones, then the resolution or
\* the continuation of it
ContinueActive(ns, aa, t) ==
    UNION { UNION { IF r < ResolveThreshold
                    THEN {Resolve(anomaly_type, ns, aa, t, s) : s \in IntervalSeeds}
                    ELSE {StillOngoing(anomaly_type, ns, aa, t,
                                       Choice(aa[anomaly_type], d.which), d.seed) :
                            d \in Corners} :
                    r \in RandomDraws } :
            anomaly_type \in ActiveKinds(aa) }

\* faulty variant of continue_anomaly: without the second early return,
\* random.choice of an empty list raises
continue_anomaly_Unguarded(ns, aa, t) ==
    IF DOMAIN aa = {} THEN {Continued("noop", "none", ns, aa, t, <<>>)}
    ELSE IF ActiveKinds(aa) = {}
         THEN {[Continued("noop", "none", ns, aa, t, <<>>) EXCEPT !.raised = TRUE]}
    ELSE ContinueActive(ns, aa, t)

\* lines 539-548: the two early returns, then the active branch
continue_anomaly(ns, aa, t) ==
    IF DOMAIN aa = {} THEN {Continued("noop", "none", ns, aa, t, <<>>)}
    ELSE IF ActiveKinds(aa) = {} THEN {Continued("noop", "none", ns, aa, t, <<>>)}
    ELSE ContinueActive(ns, aa, t)

(***************************************************************************)
(* The normal log of generate_logs                                         *)
(***************************************************************************)
\* the template drawn with each component: the one with {target_node}, the
\* one with {node_range}, the one with {timestamp}, and one per other component
TemplateDraw(i) ==
    CASE components[i] = "NETWORK" -> 2
      [] components[i] = "SCHEDULER" -> 1
      [] components[i] = "APPLICATION" -> 3
      [] OTHER -> ((3 * i) % 8) + 1

\* the draws of one normal log: node, component, template, the draw compared
\* with error_rate, the draw of random.choices and the interval seed.  Every
\* component is drawn once, on the first and the last node in turn, with the
\* draws of random.choices and of random.random() in turn.
UDrawSeq == <<0, 500, 800, 900, 999>>

NormalDraws(N) ==
    { [node_id |-> IF i % 2 = 1 THEN 0 ELSE N - 1, component |-> components[i],
       template |-> TemplateDraw(i), r |-> IF i % 3 = 0 THEN 0 ELSE 9,
       u |-> UDrawSeq[(i % 5) + 1], seed |-> i % 2] : i \in 1..Len(components) }

\* lines 725-741: the record of a normal log, or the exception of its template
normal_log(N, ns, rate, t, d) ==
    LET filled == fill_template_placeholders(
                      message_templates(d.component)[d.template], N)
        k == filled.stamps + 1
    IN  [raised |-> filled.raised,
         current_time |-> IF filled.raised THEN t ELSE TimeAfter(t, d.seed, k),
         messages |-> IF filled.raised THEN <<>>
                      ELSE <<format_log_entry(
                               generate_timestamp(t, d.seed, k), d.node_id, d.component,
                               get_severity(d.component, ns[d.node_id], rate, d.r, d.u))>>]

(***************************************************************************)
(* The simulator                                                           *)
(***************************************************************************)
\* the configurations explored: num_nodes, error_rate and anomaly_probability
\* (the two rates in tenths)
Configs == {<<128, 5, 5>>, <<128, 0, 0>>, <<40, 5, 10>>, <<5, 5, 5>>}

\* the record of an operation: what it was, who called it, the kind it drew,
\* how many records it emitted and the affected_nodes it returned
Done(op, via, kind, msgs, nodes) ==
    [op |-> op, via |-> via, kind |-> kind, emitted |-> Len(msgs),
     affected_nodes |-> nodes]

\* __init__
Init ==
    /\ \E c \in Configs :
         /\ num_nodes = c[1]
         /\ error_rate = c[2]
         /\ anomaly_probability = c[3]
    /\ node_status = [n \in 0..(num_nodes - 1) |-> "OPERATIONAL"]
    /\ active_anomalies = << >>
    /\ current_time = 0
    /\ pc = "idle"
    /\ count = 0
    /\ ticks = 0
    /\ logs = << >>
    /\ ops = 0
    /\ last = Done("none", "none", "none", << >>, << >>)
    /\ file = << >>
    /\ result = 0

\* the exception of a tick leaves generate_logs: its list is lost
TickRaises(kind) ==
    /\ pc' = "raised"
    /\ logs' = << >>
    /\ ticks' = ticks
    /\ ops' = ops + 1
    /\ last' = Done("raise", "tick", kind, << >>, << >>)
    /\ UNCHANGED <<config, node_status, active_anomalies, current_time, count, written>>

\* logs.extend(anomaly_logs); continue
TickExtends(o, op, nodes) ==
    /\ node_status' = o.node_status
    /\ active_anomalies' = o.active_anomalies
    /\ current_time' = o.current_time
    /\ logs' = logs \o o.messages
    /\ ticks' = ticks + 1
    /\ ops' = ops + 1
    /\ last' = Done(op, "tick", o.kind, o.messages, nodes)
    /\ UNCHANGED <<config, pc, count, written>>

\* a call of generate_logs(count): logs = []
GenerateLogs ==
    /\ pc = "idle"
    /\ \E c \in 0..(MaxOps - ops) : count' = c
    /\ pc' = "loop"
    /\ ticks' = 0
    /\ logs' = << >>
    /\ UNCHANGED <<config, node_status, active_anomalies, current_time, ops, last,
                   written>>

\* faulty variant of OnsetDrawn: <= for <
OnsetDrawn_Inclusive(r1) == r1 <= anomaly_probability /\ ~AnyActive(active_anomalies)

\* faulty variant of OnsetDrawn: without "and not any(...)"
OnsetDrawn_Unguarded(r1) == r1 < anomaly_probability

\* random.random() < self.anomaly_probability and not any(...), for the draw r1
OnsetDrawn(r1) == r1 < anomaly_probability /\ ~AnyActive(active_anomalies)

\* any(self.active_anomalies.values()) and random.random() < 0.3, for the draw r2
ContinueDrawn(r2) == AnyActive(active_anomalies) /\ r2 < ContinueThreshold

\* the first branch of the loop: _create_anomaly
TickOnset ==
    /\ pc = "loop" /\ ticks < count
    /\ \E r1 \in RandomDraws : OnsetDrawn(r1)
    /\ \E o \in create_anomaly(num_nodes, node_status, active_anomalies, current_time) :
         IF o.raised THEN TickRaises(o.kind)
         ELSE TickExtends(o, "onset", o.affected_nodes)

\* the second branch of the loop: _continue_anomaly
TickContinue ==
    /\ pc = "loop" /\ ticks < count
    /\ \E r1, r2 \in RandomDraws : ~OnsetDrawn(r1) /\ ContinueDrawn(r2)
    /\ \E o \in continue_anomaly(node_status, active_anomalies, current_time) :
         TickExtends(o, o.branch, << >>)

\* faulty variant of TickNormal: the normal log puts its node back to OPERATIONAL
TickNormal_Marks ==
    /\ pc = "loop" /\ ticks < count
    /\ \E r1, r2 \in RandomDraws : ~OnsetDrawn(r1) /\ ~ContinueDrawn(r2)
    /\ \E d \in NormalDraws(num_nodes) :
         LET o == normal_log(num_nodes, node_status, error_rate, current_time, d)
         IN  IF o.raised THEN TickRaises("none")
             ELSE /\ current_time' = o.current_time
                  /\ logs' = Append(logs, o.messages[1])
                  /\ ticks' = ticks + 1
                  /\ ops' = ops + 1
                  /\ last' = Done("normal", "tick", "none", o.messages, << >>)
                  /\ node_status' = [node_status EXCEPT ![d.node_id] = "OPERATIONAL"]
                  /\ UNCHANGED <<config, active_anomalies, pc, count, written>>

\* the rest of the loop body: a normal log
TickNormal ==
    /\ pc = "loop" /\ ticks < count
    /\ \E r1, r2 \in RandomDraws : ~OnsetDrawn(r1) /\ ~ContinueDrawn(r2)
    /\ \E d \in NormalDraws(num_nodes) :
         LET o == normal_log(num_nodes, node_status, error_rate, current_time, d)
         IN  IF o.raised THEN TickRaises("none")
             ELSE /\ current_time' = o.current_time
                  /\ logs' = Append(logs, o.messages[1])
                  /\ ticks' = ticks + 1
                  /\ ops' = ops + 1
                  /\ last' = Done("normal", "tick", "none", o.messages, << >>)
                  /\ UNCHANGED <<config, node_status, active_anomalies, pc, count,
                                 written>>

\* return logs
Return ==
    /\ pc = "loop" /\ ticks = count
    /\ pc' = "returned"
    /\ UNCHANGED <<config, node_status, active_anomalies, current_time, count,
                   ticks, logs, ops, last, written>>

\* faulty variant of written_count: the tick count is returned
written_count_Ticks(lines, n) == n

\* return len(logs)
written_count(lines, n) == Len(lines)

\* f.write(log + "\n") for each log in order, on the file opened with 'w':
\* one entry per write, the text written and whether a newline ends it
write_lines(lines) == [i \in 1..Len(lines) |-> [text |-> lines[i], newline |-> TRUE]]

\* the rest of generate_log_file, once its call of generate_logs has returned
WriteLogFile ==
    /\ pc = "returned"
    /\ file' = write_lines(logs)
    /\ result' = written_count(logs, count)
    /\ pc' = "written"
    /\ UNCHANGED <<config, node_status, active_anomalies, current_time, count,
                   ticks, logs, ops, last>>

\* the engine's operations called on their own, outside generate_logs
DirectEffect(o, op, nodes) ==
    /\ node_status' = o.node_status
    /\ active_anomalies' = o.active_anomalies
    /\ current_time' = o.current_time
    /\ logs' = o.messages
    /\ ops' = ops + 1
    /\ last' = Done(op, "direct", o.kind, o.messages, nodes)
    /\ pc' = IF o.raised THEN "raised" ELSE "idle"
    /\ UNCHANGED <<config, count, ticks, written>>

DirectCreate ==
    /\ pc \in {"idle", "raised"} /\ ops < MaxOps
    /\ \E o \in create_anomaly(num_nodes, node_status, active_anomalies, current_time) :
         DirectEffect(o, IF o.raised THEN "raise" ELSE "onset", o.affected_nodes)

DirectContinue ==
    /\ pc \in {"idle", "raised"} /\ ops < MaxOps
    /\ \E o \in continue_anomaly(node_status, active_anomalies, current_time) :
         DirectEffect(o, o.branch, << >>)

\* the records the last operation emitted: the tail of logs
LastMessages == SubSeq(logs, Len(logs) - last.emitted + 1, Len(logs))

Next == GenerateLogs \/ TickOnset \/ TickContinue \/ TickNormal \/ Return

\* the simulator driven through generate_logs
Spec == Init /\ [][Next]_vars

NextEngine == DirectCreate \/ DirectContinue

\* the simulator with the engine's operations also called directly
SpecEngine == Init /\ [][NextEngine]_vars

\* the simulator of the configuration with anomaly_probability = 1.0
InitFile == Init /\ anomaly_probability = 10

NextFile == Next \/ WriteLogFile

\* the simulator driven through generate_log_file
SpecFile == InitFile /\ [][NextFile]_vars

\* the outcomes of an operation whose random.random() * 5 intervals are all
\* zero: the clock stays where it was
ZeroIntervals(outcomes, t) == {o \in outcomes : o.current_time = t}

\* one whole call generate_logs(1), from logs = [] to return logs, for the
\* outcome o of its single tick
CallEffect(o, op, kind, nodes) ==
    /\ node_status' = o.node_status
    /\ active_anomalies' = o.active_anomalies
    /\ logs' = o.messages
    /\ count' = 1
    /\ ticks' = 1
    /\ last' = Done(op, "call", kind, o.messages, nodes)
    /\ pc' = "idle"
    /\ UNCHANGED <<config, current_time, ops, written>>

\* generate_logs(1) whose tick is an onset
CallOnset ==
    /\ pc = "idle"
    /\ {r1 \in RandomDraws : OnsetDrawn(r1)} # {}
    /\ \E o \in ZeroIntervals(create_anomaly(num_nodes, node_status, active_anomalies,
                                              current_time), current_time) :
         ~o.raised /\ CallEffect(o, "onset", o.kind, o.affected_nodes)

\* generate_logs(1) whose tick is a resolution
CallResolve ==
    /\ pc = "idle"
    /\ {d \in RandomDraws \X RandomDraws : ~OnsetDrawn(d[1]) /\ ContinueDrawn(d[2])} # {}
    /\ \E o \in ZeroIntervals(continue_anomaly(node_status, active_anomalies,
                                                current_time), current_time) :
         o.branch = "resolve" /\ CallEffect(o, o.branch, o.kind, << >>)

\* generate_logs(1) whose tick is a continuation
CallContinue ==
    /\ pc = "idle"
    /\ {d \in RandomDraws \X RandomDraws : ~OnsetDrawn(d[1]) /\ ContinueDrawn(d[2])} # {}
    /\ \E o \in ZeroIntervals(continue_anomaly(node_status, active_anomalies,
                                                current_time), current_time) :
         o.branch # "resolve" /\ CallEffect(o, o.branch, o.kind, << >>)

\* generate_logs(1) whose tick is a normal log
CallNormal ==
    /\ pc = "idle"
    /\ {d \in RandomDraws \X RandomDraws : ~OnsetDrawn(d[1]) /\ ~ContinueDrawn(d[2])} # {}
    /\ \E d \in NormalDraws(num_nodes) :
         LET o == normal_log(num_nodes, node_status, error_rate, current_time, d)
         IN  /\ o.current_time = current_time
             /\ ~o.raised
             /\ logs' = o.messages
             /\ count' = 1
             /\ ticks' = 1
             /\ last' = Done("normal", "call", "none", o.messages, << >>)
             /\ UNCHANGED <<config, node_status, active_anomalies,
                            current_time, pc, ops, written>>

\* the simulator of the configuration with 128 nodes and anomaly_probability
\* 0.5, in which no random range is empty and no call raises
InitLive == Init /\ num_nodes = 128 /\ anomaly_probability = 5

NextLive == CallOnset \/ CallResolve \/ CallContinue \/ CallNormal

\* the simulator driven through calls of generate_logs(1) without end, the
\* random draws being fair: a resolution that is possible again and again is
\* drawn in the end
SpecLive == InitLive /\ [][NextLive]_vars /\ SF_vars(CallResolve)

\* the draws of random.choices a direct call of _get_severity is explored
\* with, in thousandths: both sides of 0.2, 0.5 and 0.9, and the two ends
SeverityDraws == {0, 199, 200, 499, 500, 899, 900, 999}

\* the record of a call of _get_severity: its arguments, its draws and the
\* level it returned
SeverityResult(component, node_id, r, u, severity) ==
    [op |-> "get_severity", via |-> "direct", kind |-> "none", emitted |-> 0,
     affected_nodes |-> << >>, component |-> component, node_id |-> node_id,
     r |-> r, u |-> u, severity |-> severity]

\* one onset on the fresh simulator, so that some nodes are not OPERATIONAL
SeverityOnset == ops = 0 /\ DirectCreate

\* self._get_severity(component, node_id) called on its own, for the first
\* or the last node
SeverityCall ==
    /\ pc = "idle"
    /\ \E node_id \in {0, num_nodes - 1}, i \in 1..Len(components),
          r \in RandomDraws, u \in SeverityDraws :
         last' = SeverityResult(components[i], node_id, r, u,
                                get_severity(components[i], node_status[node_id],
                                             error_rate, r, u))
    /\ pc' = "called"
    /\ UNCHANGED <<config, node_status, active_anomalies, current_time, count,
                   ticks, logs, ops, written>>

\* the simulator of the configuration with 128 nodes and error_rate 0.5
InitSeverity == Init /\ num_nodes = 128 /\ error_rate = 5

NextSeverity == SeverityOnset \/ SeverityCall

\* the severity model called directly, on a fresh simulator or after an onset
SpecSeverity == InitSeverity /\ [][NextSeverity]_vars

\* the simulator driven through generate_logs by a caller that goes on: the
\* loop of generate_logs is sequential code that runs to its return
SpecFair == Spec /\ WF_vars(Next)

(***************************************************************************)
(* Properties                                                              *)
(***************************************************************************)
\* a step that performs an engine operation (a tick or a direct call)
OpStep == ops' = ops + 1

\* the step is a tick of generate_logs that did not raise
TickStep == OpStep /\ last'.via = "tick" /\ last'.op # "raise"

IsOnsetOf(kind) == last.op = "onset" /\ last.kind = kind

\* C1: whenever generate_logs is in its loop or has returned, its list holds
\* at least one record per tick done, so the list returned holds at least
\* count records; and every tick that completed appended at least one record.
C1_AtLeastCount ==
    /\ pc \in {"loop", "returned"} => Len(logs) >= ticks
    /\ pc = "returned" => Len(logs) >= count
    /\ (last.via = "tick" /\ last.op # "raise") => last.emitted >= 1

\* generate_logs(count) returned after count >= 2 ticks, with more records than ticks
C1_Witness ==
    pc = "returned" /\ count >= 2 /\ Len(logs) > count /\ last.op = "continue"

\* C2: every record of the list of generate_logs carries a node id n with
\* 0 <= n < num_nodes, whichever branch of the loop emitted it.
C2_NodeIdInRange ==
    \A i \in DOMAIN logs : logs[i].node_id \in 0..(num_nodes - 1)

\* a network partition reached the last node, and a resolution followed it
C2_Witness ==
    /\ last.via = "tick" /\ last.op = "resolve" /\ last.kind = "network_partition"
    /\ \E i \in DOMAIN logs : logs[i].node_id = num_nodes - 1
    /\ \E i \in DOMAIN logs : logs[i].severity = "INFO"

\* the records of the list are in timestamp order, none later than the clock
StampsSorted ==
    /\ \A i \in 1..(Len(logs) - 1) : logs[i].timestamp <= logs[i + 1].timestamp
    /\ \A i \in DOMAIN logs : logs[i].timestamp <= Stamp(current_time)

\* the records a tick appends are stamped between the clock before the tick
\* and the clock after it, the last of them with the clock after it; the
\* clock moves by at most 5 seconds per _generate_timestamp call (one per
\* record, and one more for a {timestamp} placeholder)
StampsFollowClock ==
    /\ current_time' >= current_time
    /\ TickStep =>
         /\ Len(logs') = Len(logs) + last'.emitted
         /\ \A i \in (Len(logs) + 1)..Len(logs') :
              /\ Stamp(current_time) <= logs'[i].timestamp
              /\ logs'[i].timestamp <= Stamp(current_time')
         /\ logs'[Len(logs')].timestamp = Stamp(current_time')
         /\ current_time' - current_time
              <= (last'.emitted + 1) * MaxIntervalSeconds * 1000000

\* C3: the timestamps of the records are non-decreasing in output order, and
\* the clock never moves backwards: every step leaves it where it was or
\* later, and every record is stamped with the clock as advanced for it.
C3_TimestampsNonDecreasing == [](StampsSorted) /\ [][StampsFollowClock]_vars

\* three ticks, with equal and with strictly increasing neighbours in the list
C3_Witness ==
    /\ ticks >= 3
    /\ \E i \in 1..(Len(logs) - 1) : logs[i].timestamp < logs[i + 1].timestamp
    /\ \E i \in 1..(Len(logs) - 1) : logs[i].timestamp = logs[i + 1].timestamp
    /\ \E i, j \in DOMAIN logs : logs[i].component # logs[j].component

\* C4: right after a tick of generate_logs resolves a kind, the kind's entry
\* is the empty list and every node that was in the entry is OPERATIONAL.
C4_ResolutionRestores ==
    [][(OpStep /\ last'.op = "resolve") =>
          /\ last'.kind \in ActiveKinds(active_anomalies)
          /\ active_anomalies'[last'.kind] = << >>
          /\ \A n \in Range(active_anomalies[last'.kind]) :
               node_status'[n] = "OPERATIONAL"]_vars

\* a resolution of a whole rack has just happened
C4_Witness ==
    /\ last.op = "resolve" /\ last.kind = "rack_power_failure"
    /\ last.emitted = RackSize + 1
    /\ active_anomalies["rack_power_failure"] = << >>
    /\ \A n \in DOMAIN node_status : node_status[n] = "OPERATIONAL"

\* C5 (as claimed): no tick of generate_logs raises, whatever num_nodes > 0
C5_NoTickRaises == pc # "raised"

\* C6: a tick is an onset, a continuation (or resolution) or one normal log;
\* an onset happens only while no kind is active and anomaly_probability > 0,
\* _continue_anomaly is called only while some kind is active, a normal log
\* while no kind is active happens only if the draw can reach
\* anomaly_probability, and a normal log is one record that leaves the node
\* status table and the registry alone.
C6_TickPolicy ==
    [][(OpStep /\ last'.via = "tick") =>
          /\ last'.op \in {"onset", "resolve", "continue", "normal", "raise"}
          /\ last'.op = "onset" =>
               ~AnyActive(active_anomalies) /\ anomaly_probability > 0
          /\ (last'.op = "raise" /\ last'.kind # "none") =>
               ~AnyActive(active_anomalies) /\ anomaly_probability > 0
          /\ last'.op \in {"resolve", "continue"} => AnyActive(active_anomalies)
          /\ (last'.op \in {"normal", "raise"} /\ last'.kind = "none"
                /\ ~AnyActive(active_anomalies)) => anomaly_probability < 10
          /\ last'.op = "normal" =>
               /\ last'.emitted = 1
               /\ UNCHANGED <<node_status, active_anomalies>>]_vars

\* a continuation right after an onset, one record each way
C6_Witness ==
    /\ last.via = "tick" /\ last.op = "continue" /\ ticks = 2
    /\ Len(logs) > 2 /\ AnyActive(active_anomalies)

\* C7: _continue_anomaly called while no kind is active returns no record,
\* raises nothing and leaves the node status table, the registry and the
\* clock as they were.
C7_ContinueIdleNoop ==
    [][(OpStep /\ last'.op \in {"noop", "resolve", "continue"}
          /\ ~AnyActive(active_anomalies)) =>
          /\ last'.op = "noop" /\ last'.emitted = 0 /\ logs' = << >>
          /\ pc' # "raised"
          /\ UNCHANGED <<node_status, active_anomalies, current_time>>]_vars

\* the call was made with a registry whose entries are all empty lists
C7_Witness ==
    /\ last.op = "noop" /\ last.via = "direct"
    /\ DOMAIN active_anomalies # {}
    /\ \A k \in DOMAIN active_anomalies : active_anomalies[k] = << >>

\* C8: the onset of a rack power failure affects the 32 nodes
\* rack_id*32 .. rack_id*32+31 of one rack below num_nodes, and all of them
\* are POWERED_OFF after it.
C8_RackAligned ==
    IsOnsetOf("rack_power_failure") =>
        LET a == last.affected_nodes
        IN  /\ Len(a) = 32
            /\ a[1] % 32 = 0
            /\ \A j \in 1..Len(a) : a[j] = a[1] + j - 1
            /\ a[1] + 31 < num_nodes
            /\ \A j \in 1..Len(a) :
                 a[j] \in DOMAIN node_status /\ node_status[a[j]] = "POWERED_OFF"

\* the last rack of a 128-node cluster went down
C8_Witness ==
    /\ IsOnsetOf("rack_power_failure")
    /\ last.affected_nodes[1] = 96 /\ num_nodes = 128

\* C9: the onset of memory_errors emits 3 to 10 records, all MEMORY records
\* of the one affected node: the first two WARNING, the last FATAL, every
\* one between ERROR.
C9_MemoryCascade ==
    IsOnsetOf("memory_errors") =>
        LET m == LastMessages
            L == Len(m)
        IN  /\ L = last.emitted /\ 3 <= L /\ L <= 10
            /\ Len(last.affected_nodes) = 1
            /\ \A i \in 1..L :
                 /\ m[i].node_id = last.affected_nodes[1]
                 /\ m[i].component = "MEMORY"
                 /\ m[i].severity = IF i <= 2 THEN "WARNING"
                                    ELSE IF i = L THEN "FATAL" ELSE "ERROR"

\* a cascade with ERROR records between the warnings and the FATAL one
C9_Witness ==
    /\ IsOnsetOf("memory_errors") /\ last.emitted = 6
    /\ LastMessages[3].severity = "ERROR" /\ LastMessages[6].severity = "FATAL"

\* C10: the onset of a network partition emits 10 to 100 records, one ERROR
\* NETWORK record per affected node in order, the affected nodes being one
\* ascending contiguous range; after it each of them is NETWORK_DEGRADED and
\* the registry entry of the kind lists exactly those nodes.
C10_NetworkPartition ==
    IsOnsetOf("network_partition") =>
        LET a == last.affected_nodes
            m == LastMessages
        IN  /\ 10 <= Len(m) /\ Len(m) <= 100
            /\ Len(m) = Len(a) /\ Len(m) = last.emitted
            /\ \A j \in 1..Len(a) :
                 /\ a[j] = a[1] + j - 1
                 /\ m[j].node_id = a[j]
                 /\ m[j].severity = "ERROR"
                 /\ m[j].component = "NETWORK"
                 /\ a[j] \in DOMAIN node_status
                 /\ node_status[a[j]] = "NETWORK_DEGRADED"
            /\ active_anomalies["network_partition"] = a

\* a partition of 100 nodes ending at the last node
C10_Witness ==
    /\ IsOnsetOf("network_partition") /\ last.emitted = 100
    /\ last.affected_nodes[100] = num_nodes - 1

\* C11: with anomaly_probability = 0 no kind is ever active and every node
\* is OPERATIONAL; every tick that completes is one normal record, so the
\* list holds one record per tick and the list returned holds exactly count
\* records, each with one of the four severities and one of the ten components.
C11_NoAnomalyExactCount ==
    anomaly_probability = 0 =>
        /\ ActiveKinds(active_anomalies) = {}
        /\ \A n \in DOMAIN node_status : node_status[n] = "OPERATIONAL"
        /\ pc \in {"loop", "returned", "written"} => Len(logs) = ticks
        /\ pc \in {"returned", "written"} => Len(logs) = count
        /\ (last.via = "tick" /\ last.op # "raise") =>
             last.op = "normal" /\ last.emitted = 1
        /\ \A i \in DOMAIN logs :
             /\ logs[i].severity \in Range(severities)
             /\ logs[i].component \in Range(components)

\* three ticks returned three records of different severities
C11_Witness ==
    /\ anomaly_probability = 0 /\ pc = "returned" /\ count = 3 /\ Len(logs) = 3
    /\ \E i, j \in DOMAIN logs : logs[i].severity # logs[j].severity

\* C12 (as claimed): the list generate_logs(count) returns holds exactly
\* count records, whatever the configuration
C12_ExactlyCount == pc = "returned" => Len(logs) = count

\* the kinds whose registry entry a step extends
KindsStarted ==
    {k \in Kinds : /\ Entry(active_anomalies', k) # Entry(active_anomalies, k)
                   /\ Entry(active_anomalies', k) # << >>}

\* C13 (amended): a tick starts at most one kind, and under generate_logs at
\* most one kind has a non-empty registry entry at any time.
C13_OneKindAtATime ==
    /\ [](Cardinality(ActiveKinds(active_anomalies)) <= 1)
    /\ [][(OpStep /\ last'.via = "tick") =>
            /\ Cardinality(KindsStarted) <= 1
            /\ last'.op = "onset" => KindsStarted = {last'.kind}
            /\ last'.op # "onset" => KindsStarted = {}]_vars

\* an onset right after the resolution of another kind: two entries, one active
C13_Witness ==
    /\ last.via = "tick" /\ last.op = "onset" /\ ticks = 3
    /\ Cardinality(DOMAIN active_anomalies) = 2
    /\ Cardinality(ActiveKinds(active_anomalies)) = 1

\* C13 (as claimed): across the ticks of generate_logs a state with two or
\* more kinds active at the same time is reached
C13_TwoKindsActive == <>(Cardinality(ActiveKinds(active_anomalies)) >= 2)

C15_OnsetMarksAndRegisters ==
    [][(OpStep /\ last'.op = "onset"
          /\ Entry(active_anomalies, last'.kind) = << >>) =>
          LET a == last'.affected_nodes
          IN  /\ a # << >>
              /\ \A j \in DOMAIN a :
                   a[j] \in DOMAIN node_status'
                     /\ node_status'[a[j]] = KindStatus(last'.kind)
              /\ Entry(active_anomalies', last'.kind) = a
              /\ DOMAIN node_status' = DOMAIN node_status
              /\ \A n \in (DOMAIN node_status) \ Range(a) :
                   node_status'[n] = node_status[n]]_vars

\* the onset of a second kind while another one is active
C15_Witness ==
    /\ last.op = "onset" /\ last.via = "direct"
    /\ Cardinality(ActiveKinds(active_anomalies)) = 2
    /\ active_anomalies[last.kind] = last.affected_nodes
    /\ \E n \in DOMAIN node_status : node_status[n] = "OPERATIONAL"

\* C16: the non-resolving branch of _continue_anomaly emits one record: an
\* ERROR of the component of the kind drawn, on a node of that kind's entry,
\* the kind being active; the node status table and the registry stay as
\* they were.
C16_ContinuationFrame ==
    [][(OpStep /\ last'.op = "continue") =>
          /\ last'.emitted = 1 /\ Len(logs') >= 1
          /\ last'.kind \in ActiveKinds(active_anomalies)
          /\ logs'[Len(logs')].severity = "ERROR"
          /\ logs'[Len(logs')].component = KindComponent(last'.kind)
          /\ logs'[Len(logs')].node_id \in Range(active_anomalies[last'.kind])
          /\ UNCHANGED <<node_status, active_anomalies>>]_vars

\* a continuation on the last node of an entry of several nodes
C16_Witness ==
    /\ last.op = "continue" /\ last.via = "direct" /\ Len(logs) = 1
    /\ Len(active_anomalies[last.kind]) > 1
    /\ logs[1].node_id = active_anomalies[last.kind][Len(active_anomalies[last.kind])]
    /\ node_status[logs[1].node_id] = KindStatus(last.kind)

\* the records a resolution step returned
ResolutionRecords ==
    SubSeq(logs', Len(logs') - last'.emitted + 1, Len(logs'))

\* the nodes of the records of the resolution of a kind with entry a: each
\* node of the entry in order (the first only for memory_errors), after the
\* entry's first node once more for rack_power_failure
RecoveryNodes(kind, a) ==
    (IF kind = "rack_power_failure" THEN <<a[1]>> ELSE << >>)
      \o (IF kind = "memory_errors" THEN <<a[1]>> ELSE a)

\* C17 (amended): every record of a resolution is an INFO record of the
\* kind's component on a node of the kind's entry: one per node of the entry
\* in registry order (for memory_errors, one for the first node only),
\* preceded for rack_power_failure by one more record on the entry's first node.
C17_RecoveryRecords ==
    [][(OpStep /\ last'.op = "resolve") =>
          LET a == active_anomalies[last'.kind]
              m == ResolutionRecords
              e == RecoveryNodes(last'.kind, a)
          IN  /\ Len(m) = Len(e)
              /\ \A i \in DOMAIN m :
                   /\ m[i].severity = "INFO"
                   /\ m[i].component = KindComponent(last'.kind)
                   /\ m[i].node_id = e[i]
                   /\ m[i].node_id \in Range(a)]_vars

\* a rack resolved: 33 records, the first two on the rack's first node
C17_Witness ==
    /\ last.op = "resolve" /\ last.kind = "rack_power_failure"
    /\ last.via = "direct" /\ Len(logs) = RackSize + 1
    /\ logs[1].node_id = logs[2].node_id
    /\ logs[RackSize + 1].node_id = logs[1].node_id + RackSize - 1

\* C17 (as claimed): a resolution emits exactly one INFO record per node of
\* the kind's entry, in registry order
C17_OneRecordPerNode ==
    [][(OpStep /\ last'.op = "resolve") =>
          LET a == active_anomalies[last'.kind]
              m == ResolutionRecords
          IN  /\ Len(m) = Len(a)
              /\ \A i \in DOMAIN m :
                   m[i].severity = "INFO" /\ m[i].node_id = a[i]]_vars

\* C18: under generate_logs the status table and the registry agree: every
\* node listed in an entry carries the status of the entry's kind, and a node
\* that is not OPERATIONAL is listed in an entry (of the kind whose status it
\* carries, by the first part); so with no kind active every node is OPERATIONAL.
C18_StatusMatchesRegistry ==
    /\ \A k \in ActiveKinds(active_anomalies) :
         \A n \in Range(active_anomalies[k]) :
            n \in DOMAIN node_status /\ node_status[n] = KindStatus(k)
    /\ {n \in DOMAIN node_status : node_status[n] # "OPERATIONAL"}
         \subseteq UNION {Range(active_anomalies[k]) :
                            k \in ActiveKinds(active_anomalies)}
    /\ ActiveKinds(active_anomalies) = {} =>
         \A n \in DOMAIN node_status : node_status[n] = "OPERATIONAL"

\* a kind started after another one was resolved: only its nodes are degraded
C18_Witness ==
    /\ ticks = 3 /\ last.op = "onset"
    /\ Cardinality(DOMAIN active_anomalies) = 2
    /\ \E n \in DOMAIN node_status : node_status[n] = "OPERATIONAL"
    /\ \E n \in DOMAIN node_status : node_status[n] = KindStatus(last.kind)

\* C19 (as claimed): whatever direct calls came before, the resolution of a
\* kind changes the status only of nodes that carried that kind's status, and
\* every node listed in the entry of another kind still active keeps that
\* other kind's status
C19_ResolveFrame ==
    [][(OpStep /\ last'.op = "resolve") =>
          /\ \A n \in DOMAIN node_status :
               node_status'[n] # node_status[n] =>
                  node_status[n] = KindStatus(last'.kind)
          /\ \A k \in ActiveKinds(active_anomalies') :
               \A n \in Range(active_anomalies'[k]) :
                  node_status[n] = KindStatus(k) => node_status'[n] = KindStatus(k)]_vars

\* C20: the keys of the node status table are exactly 0 .. num_nodes-1 and
\* every value is one of the six statuses, in every state.
C20_StatusTableTotal ==
    /\ DOMAIN node_status = 0..(num_nodes - 1)
    /\ \A n \in DOMAIN node_status : node_status[n] \in Statuses

\* the last node of the table was degraded and restored
C20_Witness ==
    /\ last.op = "resolve" /\ last.via = "direct"
    /\ \E i \in DOMAIN logs :
         logs[i].node_id = num_nodes - 1 /\ logs[i].severity = "INFO"
    /\ node_status[num_nodes - 1] = "OPERATIONAL"
    /\ Cardinality(DOMAIN node_status) = num_nodes

\* C21: a normal-log tick leaves the node status table, the registry and the
\* configuration as they were, whatever the status of its node; it appends
\* exactly one record to the list, keeps the records before it, and moves
\* only the clock besides, forwards.
C21_NormalTickFrame ==
    [][(OpStep /\ last'.op = "normal") =>
          /\ UNCHANGED <<node_status, active_anomalies, config>>
          /\ Len(logs') = Len(logs) + 1
          /\ SubSeq(logs', 1, Len(logs)) = logs
          /\ logs'[Len(logs')].node_id \in DOMAIN node_status
          /\ logs'[Len(logs')].severity \in Range(severities)
          /\ current_time' >= current_time]_vars

\* a normal log of a node that is not OPERATIONAL, while its kind stays active
C21_Witness ==
    /\ last.op = "normal" /\ last.via = "tick" /\ Len(logs) >= 2
    /\ node_status[logs[Len(logs)].node_id] # "OPERATIONAL"
    /\ AnyActive(active_anomalies)

\* C22: a resolution leaves the key of its kind in the registry with an
\* empty list, and an onset of a kind whose key is already there (the kind
\* was resolved before) finds the list empty and leaves in it exactly the
\* nodes of this onset.
C22_ClearedNotRemoved ==
    [][OpStep =>
          /\ last'.op = "resolve" =>
               /\ last'.kind \in DOMAIN active_anomalies'
               /\ active_anomalies'[last'.kind] = << >>
          /\ (last'.op = "onset" /\ last'.kind \in DOMAIN active_anomalies) =>
               /\ active_anomalies[last'.kind] = << >>
               /\ active_anomalies'[last'.kind] = last'.affected_nodes]_vars

\* a rack went down, was restored, and another rack went down in the third
\* tick: 33 records each, and the entry holds the second rack only
C22_Witness ==
    /\ last.via = "tick" /\ last.op = "onset" /\ last.kind = "rack_power_failure"
    /\ ticks = 3 /\ Len(logs) = 3 * (RackSize + 1)
    /\ logs[1].node_id # last.affected_nodes[1]
    /\ DOMAIN active_anomalies = {"rack_power_failure"}
    /\ active_anomalies["rack_power_failure"] = last.affected_nodes

\* every node of the table is OPERATIONAL
AllOperational == \A n \in DOMAIN node_status : node_status[n] = "OPERATIONAL"

\* C23: with fair draws, whenever a kind is active a state follows in which
\* no kind is active and every node is OPERATIONAL.
C23_EventuallyResolved ==
    AnyActive(active_anomalies) ~> (~AnyActive(active_anomalies) /\ AllOperational)

\* a second kind has been resolved: two cleared entries, every node restored
C23_Witness ==
    /\ last.op = "resolve" /\ last.via = "call"
    /\ Cardinality(DOMAIN active_anomalies) >= 2
    /\ ~AnyActive(active_anomalies) /\ AllOperational

\* C24: the onset of filesystem_corruption affects 5 to 20 pairwise distinct
\* nodes, which are the registry entry of the kind; it emits one ERROR
\* FILESYSTEM record per affected node, in order, and each affected node is
\* FILESYSTEM_ERROR after it.
C24_FilesystemCorruption ==
    IsOnsetOf("filesystem_corruption") =>
        LET a == last.affected_nodes
            m == LastMessages
        IN  /\ 5 <= Len(a) /\ Len(a) <= 20
            /\ \A i, j \in 1..Len(a) : i # j => a[i] # a[j]
            /\ Len(m) = Len(a) /\ last.emitted = Len(a)
            /\ \A j \in 1..Len(a) :
                 /\ m[j].node_id = a[j]
                 /\ m[j].severity = "ERROR"
                 /\ m[j].component = "FILESYSTEM"
                 /\ a[j] \in DOMAIN node_status
                 /\ node_status[a[j]] = "FILESYSTEM_ERROR"
            /\ active_anomalies["filesystem_corruption"] = a

\* a corruption of 20 nodes sampled from the end of the table
C24_Witness ==
    /\ IsOnsetOf("filesystem_corruption") /\ last.via = "tick"
    /\ last.emitted = 20 /\ last.affected_nodes[1] = num_nodes - 1
    /\ node_status[num_nodes - 20] = "FILESYSTEM_ERROR"

\* C25: the onset of overheating affects one contiguous range of 5 to 32
\* nodes, all OVERHEATING after it, and emits one TEMPERATURE record per
\* node in order; the temperatures drawn are within 75..95 and the record of
\* a node is FATAL above 90, ERROR above 85 up to 90, WARNING up to 85.
C25_OverheatingSeverity ==
    IsOnsetOf("overheating") =>
        LET a == last.affected_nodes
            m == LastMessages
        IN  /\ 5 <= Len(a) /\ Len(a) <= 32
            /\ Len(m) = Len(a) /\ last.emitted = Len(a)
            /\ \A j \in 1..Len(a) :
                 /\ a[j] = a[1] + j - 1
                 /\ m[j].node_id = a[j]
                 /\ m[j].component = "TEMPERATURE"
                 /\ a[j] \in DOMAIN node_status
                 /\ node_status[a[j]] = "OVERHEATING"
            /\ \E p \in IntervalSeeds :
                 \A j \in 1..Len(a) :
                    LET temp == Temp(p, j)
                    IN  /\ 75 <= temp /\ temp <= 95
                        /\ m[j].severity = IF temp > 90 THEN "FATAL"
                                           ELSE IF temp > 85 THEN "ERROR"
                                           ELSE "WARNING"

\* an onset on five nodes with temperatures 80, 85, 90, 95 and 79
C25_Witness ==
    /\ IsOnsetOf("overheating") /\ last.via = "direct" /\ last.emitted = 5
    /\ Temp(0, 2) = 85 /\ LastMessages[2].severity = "WARNING"
    /\ Temp(0, 3) = 90 /\ LastMessages[3].severity = "ERROR"
    /\ Temp(0, 4) = 95 /\ LastMessages[4].severity = "FATAL"

\* C26 as stated: the first node of a network partition is below
\* num_nodes - 100 and the first node of an overheating below num_nodes - 32.
C26_HalfOpenStart ==
    /\ IsOnsetOf("network_partition") =>
          0 <= last.affected_nodes[1] /\ last.affected_nodes[1] < num_nodes - 100
    /\ IsOnsetOf("overheating") =>
          0 <= last.affected_nodes[1] /\ last.affected_nodes[1] < num_nodes - 32

\* C26: the first node of a network partition lies in 0..num_nodes - 100 and
\* the first node of an overheating in 0..num_nodes - 32, both ends included;
\* the range that starts there ends within the table.
C26_ClosedStart ==
    /\ IsOnsetOf("network_partition") =>
          /\ 0 <= last.affected_nodes[1]
          /\ last.affected_nodes[1] <= num_nodes - 100
          /\ last.affected_nodes[Len(last.affected_nodes)] <= num_nodes - 1
    /\ IsOnsetOf("overheating") =>
          /\ 0 <= last.affected_nodes[1]
          /\ last.affected_nodes[1] <= num_nodes - 32
          /\ last.affected_nodes[Len(last.affected_nodes)] <= num_nodes - 1

\* an overheating that starts at node num_nodes - 32
C26_Witness ==
    /\ IsOnsetOf("overheating") /\ last.via = "direct"
    /\ last.affected_nodes[1] = num_nodes - 32
    /\ node_status[num_nodes - 32] = "OVERHEATING"

\* the level sev is the one random.choices returns for the draw u, in
\* thousandths, under the weights w: u lies at or above the cumulative share
\* of the levels before sev and below the one that includes sev
SampledFrom(w, sev, u) ==
    LET total == w[1] + w[2] + w[3] + w[4]
        k == CHOOSE i \in 1..4 : severities[i] = sev
        below == IF k = 1 THEN 0
                 ELSE IF k = 2 THEN w[1]
                 ELSE IF k = 3 THEN w[1] + w[2]
                 ELSE w[1] + w[2] + w[3]
    IN  /\ 1000 * below <= u * total
        /\ u * total < 1000 * (below + w[k])

\* the base weights 0.70/0.15/0.10/0.05 after the error_rate rule, in
\* hundredths: WARNING, ERROR and FATAL times 1.2 when the draw is below
\* error_rate, INFO times 1.2 otherwise
AdjustedBase(r) == IF r < error_rate THEN <<70, 18, 12, 6>> ELSE <<84, 15, 10, 5>>

\* the component rule, in tenths: ERROR times 1.2 and FATAL times 1.1 for
\* MEMORY, PROCESSOR and POWER; INFO times 1.2 for SCHEDULER, FILESYSTEM and
\* NETWORK
ComponentRule(w, component) ==
    [i \in 1..4 |->
        w[i] * (IF i = 1 /\ component \in {"SCHEDULER", "FILESYSTEM", "NETWORK"} THEN 12
                ELSE IF i = 3 /\ component \in {"MEMORY", "PROCESSOR", "POWER"} THEN 12
                ELSE IF i = 4 /\ component \in {"MEMORY", "PROCESSOR", "POWER"} THEN 11
                ELSE 10)]

\* C27 as stated: for a node that is not OPERATIONAL the level is sampled
\* from exactly 0.20/0.30/0.40/0.10 whatever the component; for an
\* OPERATIONAL node from the base weights after the error_rate rule and the
\* component rule; the result is one of the four levels.
C27_DegradedExact ==
    last.op = "get_severity" =>
        /\ last.severity \in Range(severities)
        /\ SampledFrom(IF node_status[last.node_id] # "OPERATIONAL"
                       THEN <<20, 30, 40, 10>>
                       ELSE ComponentRule(AdjustedBase(last.r), last.component),
                       last.severity, last.u)

\* C27: the level is one of the four and is sampled from the weights that
\* start as 0.20/0.30/0.40/0.10 for a node that is not OPERATIONAL (base
\* weights and error_rate rule unused) and as the base weights after the
\* error_rate rule for an OPERATIONAL node, and to which the component rule
\* is applied in both cases before they are renormalised.
C27_SeverityModel ==
    last.op = "get_severity" =>
        /\ last.severity \in Range(severities)
        /\ SampledFrom(ComponentRule(IF node_status[last.node_id] # "OPERATIONAL"
                                     THEN <<20, 30, 40, 10>>
                                     ELSE AdjustedBase(last.r), last.component),
                       last.severity, last.u)

\* a MEMORY record of a node that is not OPERATIONAL, for the draw 0.199:
\* WARNING, where the weights 0.20/0.30/0.40/0.10 would give INFO
C27_Witness ==
    /\ last.op = "get_severity" /\ last.component = "MEMORY"
    /\ node_status[last.node_id] # "OPERATIONAL"
    /\ last.u = 199 /\ last.severity = "WARNING"

====
